---- MODULE Spec2Model ----
(***************************************************************************)
(* vue-object-merge: stateMerge(state, value, propName, ignoreNull).       *)
(*                                                                         *)
(* JavaScript objects live in a heap of records addressed by reference, so *)
(* that reference identity, aliasing and in-place mutation are observable. *)
(* The recursion of stateMerge is an explicit stack of frames.             *)
(***************************************************************************)
EXTENDS Integers, Sequences, FiniteSets, TLC

\* How many top-level stateMerge calls the caller makes in one behaviour.
MaxCalls == 2

\* The propName argument when the caller leaves it out (undefined).
NoProp == "<omitted>"

(***************************************************************************)
(* JavaScript values.  Every value is a record [t, v]: a number, null,     *)
(* undefined, or a reference into the heap (plain object or array).        *)
(***************************************************************************)
Num(n) == [t |-> "num", v |-> n]
Null == [t |-> "null", v |-> 0]
Undef == [t |-> "undef", v |-> 0]
Ref(i) == [t |-> "ref", v |-> i]

IsRef(x) == x.t = "ref"

\* Object literals as the caller writes them: a leaf, or a kind with its
\* properties in insertion order.
TObj(ps) == [t |-> "obj", v |-> ps]
TArr(ps) == [t |-> "arr", v |-> ps]
TNum(n) == [t |-> "num", v |-> n]
TNull == [t |-> "null", v |-> 0]
TUndef == [t |-> "undef", v |-> 0]

\* Destination objects (the `state` argument) the behaviours start from.
DestTemplates ==
    << TObj(<< >>),
       TObj(<< <<"a", TNum(1)>>, <<"b", TNum(1)>> >>),
       TObj(<< <<"a", TObj(<< <<"b", TNum(1)>> >>)>>,
               <<"b", TArr(<< <<"0", TNum(1)>> >>)>> >>),
       TObj(<< <<"a", TNull>>,
               <<"b", TObj(<< <<"a", TObj(<< <<"b", TNum(1)>> >>)>> >>)>> >>),
       TObj(<< <<"a", TObj(<< <<"a", TObj(<< <<"a", TNum(1)>> >>)>>,
                              <<"b", TUndef>> >>)>> >>) >>

\* Values the caller passes as the `value` argument.
SrcTemplates ==
    << TNum(2),
       TNull,
       TArr(<< <<"0", TNum(2)>> >>),
       TObj(<< <<"a", TNum(2)>> >>),
       TObj(<< <<"a", TNull>>, <<"b", TNum(2)>> >>),
       TObj(<< <<"b", TObj(<< <<"a", TNum(2)>> >>)>> >>),
       TObj(<< <<"a", TObj(<< <<"b", TNull>>,
                              <<"a", TArr(<< <<"0", TNum(2)>> >>)>> >>)>> >>),
       TObj(<< <<"a", TObj(<< <<"a", TObj(<< <<"b", TNum(2)>> >>)>> >>)>> >>),
       TObj(<< <<"b", TUndef>> >>) >>

\* propName arguments the caller passes at the top level.
PropArgs == {NoProp, "a"}

(***************************************************************************)
(* The heap: a sequence of objects; Ref(i) is the i-th.  An object has a   *)
(* kind and its own enumerable properties in insertion order.              *)
(***************************************************************************)
RECURSIVE Alloc(_, _), AllocProps(_, _)
AllocProps(h, ps) ==
    IF ps = << >> THEN [h |-> h, props |-> << >>]
    ELSE LET first == Alloc(h, Head(ps)[2])
             rest == AllocProps(first.h, Tail(ps))
         IN [h |-> rest.h,
             props |-> << [k |-> Head(ps)[1], v |-> first.v] >> \o rest.props]

\* Evaluating an object literal: the nested objects first, then the object.
Alloc(h, tmpl) ==
    IF tmpl.t \in {"obj", "arr"}
    THEN LET r == AllocProps(h, tmpl.v)
             o == [kind |-> IF tmpl.t = "obj" THEN "Object" ELSE "Array",
                   props |-> r.props]
         IN [h |-> Append(r.h, o), v |-> Ref(Len(r.h) + 1)]
    ELSE [h |-> h, v |-> [t |-> tmpl.t, v |-> tmpl.v]]

\* The own property names of object i, in for-in order.
KeysOf(h, i) == [n \in 1..Len(h[i].props) |-> h[i].props[n].k]

KeySet(h, i) == {h[i].props[n].k : n \in 1..Len(h[i].props)}

\* x[k]: the property's value, undefined when x has no such property.
GetProp(h, x, k) ==
    IF IsRef(x) /\ k \in KeySet(h, x.v)
    THEN LET n == CHOOSE n \in 1..Len(h[x.v].props) : h[x.v].props[n].k = k
         IN h[x.v].props[n].v
    ELSE Undef

\* Object.prototype.toString.call(value) === "[object Object]"
IsPlainObject(h, x) == IsRef(x) /\ h[x.v].kind = "Object"

\* state.hasOwnProperty(propName), for a state that is not null or undefined:
\* a number has no own properties.
HasOwnProperty(h, x, k) == IsRef(x) /\ k \in KeySet(h, x.v)

\* null and undefined have no properties: reading one throws a TypeError.
IsNullish(x) == x.t \in {"null", "undef"}

\* The property name Vue.set uses: an omitted propName is the key "undefined".
PropKey(p) == IF p = NoProp THEN "undefined" ELSE p

\* Vue.set(state, propName, value) throws a TypeError when state is null,
\* undefined or a primitive (`key in target` / a strict-mode assignment).
VueSetThrows(x) == ~IsRef(x)

\* A Vue.set that replaces the object's properties by the one it sets.
VueSet_Replace(h, x, k, val) ==
    [h EXCEPT ![x.v].props = << [k |-> k, v |-> val] >>]

\* Vue.set(state, propName, value) on an object or array: overwrite the
\* property in place, or add it after the existing ones.
VueSet(h, x, k, val) ==
    LET ps == h[x.v].props
        new == IF k \in KeySet(h, x.v)
               THEN [n \in 1..Len(ps) |->
                        IF ps[n].k = k THEN [k |-> k, v |-> val] ELSE ps[n]]
               ELSE Append(ps, [k |-> k, v |-> val])
    IN [h EXCEPT ![x.v].props = new]

(***************************************************************************)
(* State.                                                                  *)
(*   heap    the JavaScript heap                                           *)
(*   root    the caller's state object                                     *)
(*   stack   the stateMerge invocations in progress, innermost last        *)
(*   status  "idle" before the first call, "running" inside a call,        *)
(*           "returned" after a normal return, "TypeError" after a throw   *)
(*   call    the arguments of the current (or last) top-level call and the *)
(*           heap as it was when the call was made                         *)
(*   ncalls  number of top-level calls made                                *)
(*   writes  the Vue.set calls of the current call, in order               *)
(*   passed  the source objects passed so far, and asPassed, the heap      *)
(*           contents each had when it was first passed                    *)
(***************************************************************************)
VARIABLES heap, root, stack, status, call, ncalls, writes, passed, asPassed

vars == <<heap, root, stack, status, call, ncalls, writes, passed, asPassed>>

Frame(state, value, propName, ignoreNull) ==
    [state |-> state, value |-> value, propName |-> propName,
     ignoreNull |-> ignoreNull, pc |-> "enter", o |-> Undef, todo |-> << >>]

Top == stack[Len(stack)]

Init ==
    /\ \E d \in 1..Len(DestTemplates) :
          LET r == Alloc(<< >>, DestTemplates[d])
          IN /\ heap = r.h
             /\ root = r.v
             /\ asPassed = r.h
    /\ stack = << >>
    /\ status = "idle"
    /\ call = [value |-> Undef, propName |-> NoProp, ignoreNull |-> FALSE,
               heap0 |-> << >>, again |-> FALSE]
    /\ ncalls = 0
    /\ writes = << >>
    /\ passed = {}

\* The caller builds a fresh value and calls
\* stateMerge(state, value, propName, ignoreNull).
Call ==
    /\ status # "running"
    /\ ncalls < MaxCalls
    /\ \E s \in 1..Len(SrcTemplates), p \in PropArgs, ig \in BOOLEAN :
          LET r == Alloc(heap, SrcTemplates[s])
          IN /\ heap' = r.h
             /\ stack' = << Frame(root, r.v, p, ig) >>
             /\ call' = [value |-> r.v, propName |-> p, ignoreNull |-> ig,
                         heap0 |-> r.h, again |-> FALSE]
             /\ passed' = passed \cup (Len(heap) + 1 .. Len(r.h))
             /\ asPassed' = asPassed \o SubSeq(r.h, Len(heap) + 1, Len(r.h))
    /\ status' = "running"
    /\ ncalls' = ncalls + 1
    /\ writes' = << >>
    /\ UNCHANGED root

\* The caller repeats its last call with the very same arguments.
CallAgain ==
    /\ status # "running"
    /\ ncalls >= 1
    /\ ncalls < MaxCalls
    /\ stack' = << Frame(root, call.value, call.propName, call.ignoreNull) >>
    /\ call' = [call EXCEPT !.heap0 = heap, !.again = TRUE]
    /\ status' = "running"
    /\ ncalls' = ncalls + 1
    /\ writes' = << >>
    /\ UNCHANGED <<heap, root, passed, asPassed>>

\* A condition that forgets the hasOwnProperty test.
IsContainer_NoOwnCheck(h, f) == IsPlainObject(h, f.value)

\* The condition of the if: value is a plain object and either no propName
\* was given or state has it as an own property.
IsContainer(h, f) ==
    /\ IsPlainObject(h, f.value)
    /\ \/ f.propName = NoProp
       \/ HasOwnProperty(h, f.state, f.propName)

\* Evaluating the condition calls state.hasOwnProperty, which throws when
\* state is null or undefined.
ConditionThrows(h, f) ==
    /\ IsPlainObject(h, f.value)
    /\ f.propName # NoProp
    /\ IsNullish(f.state)

\* A loop that merges into state itself instead of state[propName].
MergeTarget_NoDescend(h, f) == f.state

\* The object the loop merges into.
MergeTarget(h, f) ==
    IF f.propName = NoProp THEN f.state ELSE GetProp(h, f.state, f.propName)

\* A loop that hands the whole value down instead of value[prop].
ChildValue_Same(h, f, prop) == f.value

\* The value handed to the recursive call for property prop of value.
ChildValue(h, f, prop) == GetProp(h, f.value, prop)

\* A test that skips every null, whatever ignoreNull says.
SkipsAssignment_AnyNull(f) == f.value = Null

\* Line 14: the assignment is skipped for a null value under ignoreNull.
SkipsAssignment(f) == f.ignoreNull /\ f.value = Null

PopFrame ==
    /\ stack' = SubSeq(stack, 1, Len(stack) - 1)
    /\ status' = IF Len(stack) = 1 THEN "returned" ELSE "running"

Throw ==
    /\ stack' = << >>
    /\ status' = "TypeError"

\* The if is taken: o is fixed and the for-in loop starts.
Recurse ==
    /\ status = "running"
    /\ Top.pc = "enter"
    /\ ~ConditionThrows(heap, Top)
    /\ IsContainer(heap, Top)
    /\ stack' = [stack EXCEPT ![Len(stack)] =
                    [Top EXCEPT !.pc = "loop",
                                !.o = MergeTarget(heap, Top),
                                !.todo = KeysOf(heap, Top.value.v)]]
    /\ UNCHANGED <<heap, root, status, call, ncalls, writes, passed, asPassed>>

\* One iteration of the loop: stateMerge(o, value[prop], prop, ignoreNull).
LoopNext ==
    /\ status = "running"
    /\ Top.pc = "loop"
    /\ Top.todo # << >>
    /\ LET prop == Head(Top.todo)
       IN stack' = Append(
              [stack EXCEPT ![Len(stack)] = [Top EXCEPT !.todo = Tail(Top.todo)]],
              Frame(Top.o, ChildValue(heap, Top, prop), prop, Top.ignoreNull))
    /\ UNCHANGED <<heap, root, status, call, ncalls, writes, passed, asPassed>>

\* The loop is over: return.
Return ==
    /\ status = "running"
    /\ Top.pc = "loop"
    /\ Top.todo = << >>
    /\ PopFrame
    /\ UNCHANGED <<heap, root, call, ncalls, writes, passed, asPassed>>

\* The if is not taken and the value is assigned: Vue.set(state, propName, value).
LeafAssign ==
    /\ status = "running"
    /\ Top.pc = "enter"
    /\ ~ConditionThrows(heap, Top)
    /\ ~IsContainer(heap, Top)
    /\ ~SkipsAssignment(Top)
    /\ ~VueSetThrows(Top.state)
    /\ heap' = VueSet(heap, Top.state, PropKey(Top.propName), Top.value)
    /\ writes' = Append(writes, [obj |-> Top.state.v,
                                 key |-> PropKey(Top.propName),
                                 val |-> Top.value])
    /\ PopFrame
    /\ UNCHANGED <<root, call, ncalls, passed, asPassed>>

\* The if is not taken and the value is a null to ignore: nothing is done.
LeafSkipNull ==
    /\ status = "running"
    /\ Top.pc = "enter"
    /\ ~ConditionThrows(heap, Top)
    /\ ~IsContainer(heap, Top)
    /\ SkipsAssignment(Top)
    /\ PopFrame
    /\ UNCHANGED <<heap, root, call, ncalls, writes, passed, asPassed>>

\* state.hasOwnProperty(propName) on null or undefined throws.
ThrowHasOwnProperty ==
    /\ status = "running"
    /\ Top.pc = "enter"
    /\ ConditionThrows(heap, Top)
    /\ Throw
    /\ UNCHANGED <<heap, root, call, ncalls, writes, passed, asPassed>>

\* Vue.set on null, undefined or a primitive throws.
ThrowVueSet ==
    /\ status = "running"
    /\ Top.pc = "enter"
    /\ ~ConditionThrows(heap, Top)
    /\ ~IsContainer(heap, Top)
    /\ ~SkipsAssignment(Top)
    /\ VueSetThrows(Top.state)
    /\ Throw
    /\ UNCHANGED <<heap, root, call, ncalls, writes, passed, asPassed>>

\* The steps of a call in progress.
Step ==
    \/ Recurse
    \/ LoopNext
    \/ Return
    \/ LeafAssign
    \/ LeafSkipNull
    \/ ThrowHasOwnProperty
    \/ ThrowVueSet

Next ==
    \/ Call
    \/ CallAgain
    \/ Step

Spec == Init /\ [][Next]_vars

\* stateMerge is synchronous: once called it runs until it returns or throws.
FairSpec == Spec /\ WF_vars(Step)

(***************************************************************************)
(* Vocabulary of the properties.  h0 is the heap when the call was made,   *)
(* h1 the heap now.                                                        *)
(***************************************************************************)
Finished == status \in {"returned", "TypeError"}

\* The call respects the contract on propName: a property name, or a plain object.
ContractCall == call.propName # NoProp \/ IsPlainObject(call.heap0, call.value)

\* Everything reachable from x has the same contents in h0 and h1.
RECURSIVE DeepSame(_, _, _)
DeepSame(h0, h1, x) ==
    IsRef(x) =>
        /\ h0[x.v].kind = h1[x.v].kind
        /\ KeySet(h0, x.v) = KeySet(h1, x.v)
        /\ \A k \in KeySet(h0, x.v) :
              /\ GetProp(h0, x, k) = GetProp(h1, x, k)
              /\ DeepSame(h0, h1, GetProp(h0, x, k))

\* Nesting depth of a value: 0 for a leaf, one more than its deepest
\* property for a plain object.
RECURSIVE Depth(_, _)
Depth(h, x) ==
    IF ~IsPlainObject(h, x) THEN 0
    ELSE LET ds == {Depth(h, GetProp(h, x, k)) : k \in KeySet(h, x.v)} \cup {0}
         IN 1 + CHOOSE m \in ds : \A n \in ds : n <= m

\* d is a destination value and s the source value merged into it: every
\* key of d (at every level) that s does not have is as it was.
RECURSIVE DisjointKept(_, _, _, _)
DisjointKept(h0, h1, d, s) ==
    (IsRef(d) /\ IsPlainObject(h0, s)) =>
        \A k \in KeySet(h0, d.v) :
            IF k \in KeySet(h0, s.v)
            THEN DisjointKept(h0, h1, GetProp(h0, d, k), GetProp(h0, s, k))
            ELSE /\ k \in KeySet(h1, d.v)
                 /\ GetProp(h1, d, k) = GetProp(h0, d, k)
                 /\ DeepSame(h0, h1, GetProp(h0, d, k))

\* The sub-value dv of the destination holds the source object sv's values
\* for sv's keys (a key both hold as objects is merged one level down) and
\* its previous values for its other keys.
HoldsSource(h0, h1, dv, sv, ig) ==
    /\ \A j \in KeySet(h0, sv.v) :
          LET x == GetProp(h0, sv, j)
          IN \/ ig /\ x = Null
             \/ IsPlainObject(h0, x) /\ HasOwnProperty(h0, dv, j)
             \/ GetProp(h1, dv, j) = x
    /\ IsRef(dv) =>
          \A j \in KeySet(h0, dv.v) \ KeySet(h0, sv.v) :
              GetProp(h1, dv, j) = GetProp(h0, dv, j)

\* For every key of the plain object s whose value is a plain object and
\* that the destination object d has: d keeps its sub-value, which holds
\* the merge of the two; and so on below.
RECURSIVE DeepMergeHolds(_, _, _, _, _)
DeepMergeHolds(h0, h1, d, s, ig) ==
    \A j \in KeySet(h0, s.v) :
        LET sv == GetProp(h0, s, j)
            dv == GetProp(h0, d, j)
        IN (IsPlainObject(h0, sv) /\ HasOwnProperty(h0, d, j)) =>
              /\ GetProp(h1, d, j) = dv
              /\ HoldsSource(h0, h1, dv, sv, ig)
              /\ DeepMergeHolds(h0, h1, dv, sv, ig)

\* Every leaf of the plain object s (not a null to ignore) is the value of
\* the destination at the same path below d.
RECURSIVE LeavesWritten(_, _, _, _, _)
LeavesWritten(h0, h1, d, s, ig) ==
    \A j \in KeySet(h0, s.v) :
        LET x == GetProp(h0, s, j)
        IN IF IsPlainObject(h0, x)
           THEN HasOwnProperty(h0, d, j) =>
                    LeavesWritten(h0, h1, GetProp(h0, d, j), x, ig)
           ELSE (ig /\ x = Null) \/ GetProp(h1, d, j) = x

\* The frame about to run has a null value.
AtNull == status = "running" /\ Top.pc = "enter" /\ Top.value = Null

\* The frame about to run has a plain-object value for a key its
\* destination object does not have.
AtNewObject ==
    /\ status = "running"
    /\ Top.pc = "enter"
    /\ Top.propName # NoProp
    /\ IsPlainObject(heap, Top.value)
    /\ IsRef(Top.state)
    /\ ~HasOwnProperty(heap, Top.state, Top.propName)

C2_DisjointKeysKept ==
    (status # "idle" /\ ContractCall) =>
        IF call.propName = NoProp
        THEN DisjointKept(call.heap0, heap, root, call.value)
        ELSE /\ \A k \in KeySet(call.heap0, root.v) \ {call.propName} :
                   /\ k \in KeySet(heap, root.v)
                   /\ GetProp(heap, root, k) = GetProp(call.heap0, root, k)
                   /\ DeepSame(call.heap0, heap, GetProp(call.heap0, root, k))
             /\ HasOwnProperty(call.heap0, root, call.propName) =>
                   DisjointKept(call.heap0, heap,
                                GetProp(call.heap0, root, call.propName),
                                call.value)

\* A merge returned after writing below state.a, where state.a.b and
\* state.b are keys the value does not have.
C2_Witness ==
    /\ status = "returned"
    /\ call.propName = NoProp
    /\ writes # << >>
    /\ IsPlainObject(call.heap0, GetProp(call.heap0, call.value, "a"))
    /\ KeySet(call.heap0, call.value.v) = {"a"}
    /\ "b" \in KeySet(call.heap0, root.v)
    /\ IsRef(GetProp(call.heap0, root, "a"))
    /\ "b" \in KeySet(call.heap0, GetProp(call.heap0, root, "a").v)
    /\ "b" \notin KeySet(call.heap0, GetProp(call.heap0, call.value, "a").v)
    /\ writes[1].obj = GetProp(call.heap0, root, "a").v

(***************************************************************************)
(* C3  Deep merge.  After a call, for every source property whose value is *)
(* a plain object and whose key the destination already has, the           *)
(* destination keeps its sub-value, and that sub-object holds the source's *)
(* values for the source's keys and its previous values for the others.    *)
(***************************************************************************)
C3_DeepMerge ==
    (Finished /\ ContractCall /\ IsPlainObject(call.heap0, call.value)) =>
        IF call.propName = NoProp
        THEN DeepMergeHolds(call.heap0, heap, root, call.value, call.ignoreNull)
        ELSE HasOwnProperty(call.heap0, root, call.propName) =>
                LET dv == GetProp(call.heap0, root, call.propName)
                IN /\ GetProp(heap, root, call.propName) = dv
                   /\ HoldsSource(call.heap0, heap, dv, call.value, call.ignoreNull)
                   /\ DeepMergeHolds(call.heap0, heap, dv, call.value,
                                     call.ignoreNull)

(***************************************************************************)
(* C4  Leaf overwrite.  After a call, every source property whose value is *)
(* not a plain object (and not a null to ignore) is the value of the       *)
(* destination property at the same path: the same number, the same array. *)
(***************************************************************************)
C4_LeafOverwrite ==
    (Finished /\ ContractCall) =>
        IF call.propName = NoProp
        THEN LeavesWritten(call.heap0, heap, root, call.value, call.ignoreNull)
        ELSE IF IsPlainObject(call.heap0, call.value)
             THEN HasOwnProperty(call.heap0, root, call.propName) =>
                     LeavesWritten(call.heap0, heap,
                                   GetProp(call.heap0, root, call.propName),
                                   call.value, call.ignoreNull)
             ELSE \/ call.ignoreNull /\ call.value = Null
                  \/ GetProp(heap, root, call.propName) = call.value

(***************************************************************************)
(* C5  A call with no propName and a value that is not a plain object      *)
(* fails with InvalidArgument and writes nothing.                          *)
(***************************************************************************)
C5_InvalidArgument ==
    (Finished /\ ~ContractCall) =>
        /\ status = "InvalidArgument"
        /\ writes = << >>

(***************************************************************************)
(* C6  A call with a propName or a plain-object value never raises an      *)
(* error, whatever the kinds of the old and the new value at a key.        *)
(***************************************************************************)
C6_NeverRaises == ContractCall => status # "TypeError"

(***************************************************************************)
(* C7  No object passed to stateMerge as (part of) a source value is ever  *)
(* changed, by that call or a later one.                                   *)
(***************************************************************************)
C7_SourceNeverMutated == \A i \in passed : heap[i] = asPassed[i]

(***************************************************************************)
(* C8  Idempotence.  When the caller repeats a call with the same          *)
(* arguments, the state has the same contents after the second call as it  *)
(* had after the first.                                                    *)
(***************************************************************************)
C8_Idempotence ==
    (status # "idle" /\ call.again) => DeepSame(call.heap0, heap, root)

\* The repeated call returned after writing, and the first call had
\* installed an object of the value in the state.
C8_Witness ==
    /\ status = "returned"
    /\ call.again
    /\ writes # << >>
    /\ \E k \in KeySet(heap, root.v) :
          /\ IsPlainObject(heap, GetProp(heap, root, k))
          /\ GetProp(heap, root, k) = GetProp(heap, call.value, k)

(***************************************************************************)
(* C9  New nested object installed wholesale.  When the value is a plain   *)
(* object and the destination object does not have the key, the step is    *)
(* one Vue.set of that very object: no recursion, no copy, and the object  *)
(* is left as it is.                                                       *)
(***************************************************************************)
C9_WholesaleInstall ==
    [][ AtNewObject =>
          /\ writes' = Append(writes, [obj |-> Top.state.v,
                                       key |-> Top.propName,
                                       val |-> Top.value])
          /\ GetProp(heap', Top.state, Top.propName) = Top.value
          /\ Len(heap') = Len(heap)
          /\ heap'[Top.value.v] = heap[Top.value.v]
          /\ Len(stack') = Len(stack) - 1
      ]_vars

\* A call returned whose only write installed a plain object of two levels
\* below the root of the state.
C9_Witness ==
    /\ status = "returned"
    /\ Len(writes) = 1
    /\ writes[1].obj # root.v
    /\ IsPlainObject(heap, writes[1].val)
    /\ GetProp(heap, Ref(writes[1].obj), writes[1].key) = writes[1].val
    /\ writes[1].val.v \in passed

(***************************************************************************)
(* C10  Termination.  Every call returns or throws, and the number of      *)
(* nested recursive invocations never exceeds the nesting depth the value  *)
(* had when the call was made.                                             *)
(***************************************************************************)
DepthBound ==
    status = "running" => Len(stack) - 1 <= Depth(call.heap0, call.value)

C10_Termination ==
    /\ []DepthBound
    /\ (status = "running") ~> Finished

\* A call returned that had nested three invocations for a value of depth
\* three (the third one made the write).
C10_Witness ==
    /\ status = "returned"
    /\ Depth(call.heap0, call.value) = 3
    /\ writes # << >>
    /\ writes[1].obj = GetProp(heap, GetProp(heap, root, "a"), "a").v

====
